---- MODULE Spec2Model ----
(***************************************************************************)
(* Model of tensorforce/core/optimizers/multi_step.py (MultiStep) and      *)
(* tensorforce/core/optimizers/evolutionary.py (Evolutionary).             *)
(*                                                                         *)
(* A step is modelled as the run of the dataflow graph that tf_step        *)
(* builds: one action per group of operations, ordered only by the data    *)
(* and control dependencies the code declares.  Real numbers are held in   *)
(* fixed point, as integer multiples of 1/Den, where Den is divisible by   *)
(* every admissible num_samples, so that the division of line 131 is       *)
(* exact (floating-point rounding is not modelled).  An operation that    *)
(* reads or writes the Variables (fn_loss, apply_step, an inner step) is   *)
(* one atomic action; operations no dependency orders may run in either    *)
(* order.                                                                  *)
(***************************************************************************)
EXTENDS Integers, Sequences, FiniteSets, TLC

\* ------------------------------------------------------------------ bounds

\* Largest num_samples passed to Evolutionary.__init__.
MaxSamples == 3

\* Largest num_steps passed to MultiStep.__init__.
MaxSteps == 3

\* ------------------------------------------------------------- arithmetic

RECURSIVE Factorial(_)
Factorial(n) == IF n <= 1 THEN 1 ELSE n * Factorial(n - 1)

\* Fixed-point denominator: the real number r is held as r * Den.
Den == Factorial(MaxSamples)

Real(n) == n * Den

\* The Variables being optimized (the list `variables` of tf_step).
VarIds == {"w", "b"}

Zeros == [v \in VarIds |-> 0]

RECURSIVE SumOver(_, _)
SumOver(S, f) ==
    IF S = {} THEN 0
    ELSE LET v == CHOOSE x \in S : TRUE IN f[v] + SumOver(S \ {v}, f)

\* tf.sign: -1, 0 or 1.
Sign(x) == IF x > 0 THEN 1 ELSE IF x < 0 THEN -1 ELSE 0

\* ------------------------------------------------------------------ inputs

\* Python values handed to the constructors, with their type.
PyInt(n) == [type |-> "int", val |-> n]
PyFloat(n) == [type |-> "float", val |-> n]
PyBool(b) == [type |-> "bool", val |-> IF b THEN 1 ELSE 0]

\* isinstance(x, t): bool is a subclass of int.
IsInstance(x, t) ==
    IF t = "int" THEN x.type \in {"int", "bool"} ELSE x.type = t

NumStepsArgs == {PyInt(n) : n \in -1 .. MaxSteps} \cup {PyFloat(2), PyBool(TRUE)}
NumSamplesArgs == {PyInt(n) : n \in -1 .. MaxSamples} \cup {PyFloat(2), PyBool(TRUE)}
LearningRateArgs == {PyFloat(-1), PyFloat(0), PyFloat(1), PyFloat(2), PyInt(1)}
UnrollLoopArgs == {PyBool(TRUE), PyBool(FALSE), PyInt(1)}

\* Values of the Variables before the step.
InitValues == {Real(0), Real(1)}

\* Draws of tf.random_normal (one scalar per Variable).
Normal == {-1, 1}

\* Deltas an inner optimizer's step may return (and apply) per Variable.
InnerDeltas == {Real(-1), Real(1)}

\* The loss callables fn_loss handed to Evolutionary.step.
LossFns ==
    { [kind |-> "quadratic", target |-> Real(1)],
      [kind |-> "linear", target |-> 0],
      [kind |-> "constant", target |-> 0] }

\* fn_reference: omitted (the default None) or a callable.
FnReferences == {"None", "callable"}

\* ------------------------------------------------------------------- state

VARIABLES
    kind,                   \* class of the optimizer constructed
    ctor_args,              \* the arguments its constructor was called with
    num_steps,              \* MultiStep.num_steps
    num_samples,            \* Evolutionary.num_samples
    learning_rate,          \* Evolutionary.learning_rate
    unroll_loop,            \* self.unroll_loop
    pc,                     \* position of the step in tf_step
    variables,              \* current values of the Variables
    arguments,              \* the arguments mapping (with its 'reference' entry)
    fn_loss,                \* the loss callable of the step call
    fn_reference,           \* the reference callable of the step call
    unperturbed_loss,       \* tf_step local
    baseline_done,          \* whether the unperturbed_loss operation has run
    perturbed_loss,         \* tf_step local
    perturbations,          \* tf_step local
    previous_perturbations, \* tf_step local / loop variable
    deltas_sum,             \* tf_step local / loop variable
    deltas,                 \* tf_step local / loop variable; the returned value
    iterations,             \* loop iterations run so far
    original,               \* history: the Variables when step was called
    tape,                   \* history: the perturbations sampled / inner deltas returned
    trace,                  \* history: fn_loss, apply_step, fn_reference and inner step runs
    replay,                 \* the samples a second run is fed (empty: free choice)
    first                   \* outcome of the first of two compared runs

config == <<kind, ctor_args, num_steps, num_samples, learning_rate, unroll_loop>>
call == <<fn_loss, fn_reference, original, replay, first>>
locals == <<unperturbed_loss, baseline_done, perturbed_loss, perturbations,
            previous_perturbations, deltas_sum, deltas, iterations>>
vars == <<config, call, locals, pc, variables, arguments, tape, trace>>

NoArgs == [class |-> "none", num |-> PyInt(0), learning_rate |-> PyFloat(0), unroll_loop |-> PyBool(FALSE)]
NoArguments == [has_reference |-> FALSE, reference |-> Zeros]
NoLoss == [kind |-> "constant", target |-> 0]
NoFirst == [done |-> FALSE, deltas |-> Zeros, variables |-> Zeros, trace |-> <<>>]

\* One run of a collaborator: what it was given and the Variables it found.
Event(op, arg, ref) == [op |-> op, arg |-> arg, vars |-> variables, reference |-> ref]

Init ==
    /\ kind = "none"
    /\ ctor_args = NoArgs
    /\ num_steps = 0
    /\ num_samples = 0
    /\ learning_rate = 0
    /\ unroll_loop = FALSE
    /\ pc = "new"
    /\ variables \in [VarIds -> InitValues]
    /\ arguments = NoArguments
    /\ fn_loss = NoLoss
    /\ fn_reference = "None"
    /\ unperturbed_loss = 0
    /\ baseline_done = FALSE
    /\ perturbed_loss = 0
    /\ perturbations = Zeros
    /\ previous_perturbations = Zeros
    /\ deltas_sum = Zeros
    /\ deltas = Zeros
    /\ iterations = 0
    /\ original = Zeros
    /\ tape = <<>>
    /\ trace = <<>>
    /\ replay = <<>>
    /\ first = NoFirst

\* ------------------------------------------------------------ construction

\* multi_step.py:38  assert isinstance(num_steps, int) and num_steps > 0
ValidNumSteps(x) == IsInstance(x, "int") /\ x.val > 0

\* Mutant: a learning_rate of 0.0 passes.
ValidLearningRateNonNegative(x) == IsInstance(x, "float") /\ x.val >= 0

\* evolutionary.py:38  assert isinstance(learning_rate, float) and learning_rate > 0.0
ValidLearningRate(x) == IsInstance(x, "float") /\ x.val > 0

\* evolutionary.py:41  assert isinstance(num_samples, int) and num_samples > 0
ValidNumSamples(x) == IsInstance(x, "int") /\ x.val > 0

\* multi_step.py:41, evolutionary.py:44  assert isinstance(unroll_loop, bool)
ValidUnrollLoop(x) == IsInstance(x, "bool")

\* MultiStep.__init__: a failed assertion raises and no optimizer exists.
MultiStepInit ==
    /\ pc = "new"
    /\ \E n \in NumStepsArgs, u \in UnrollLoopArgs :
        /\ ctor_args' = [class |-> "MultiStep", num |-> n, learning_rate |-> PyFloat(0),
                        unroll_loop |-> u]
        /\ IF ValidNumSteps(n) /\ ValidUnrollLoop(u)
           THEN /\ kind' = "MultiStep"
                /\ num_steps' = n.val
                /\ unroll_loop' = (u.val = 1)
                /\ pc' = "constructed"
           ELSE /\ pc' = "rejected"
                /\ UNCHANGED <<kind, num_steps, unroll_loop>>
    /\ UNCHANGED <<num_samples, learning_rate, call, locals, variables, arguments,
                   tape, trace>>

\* Evolutionary.__init__
EvolutionaryInit ==
    /\ pc = "new"
    /\ \E l \in LearningRateArgs, n \in NumSamplesArgs, u \in UnrollLoopArgs :
        /\ ctor_args' = [class |-> "Evolutionary", num |-> n, learning_rate |-> l,
                        unroll_loop |-> u]
        /\ IF ValidLearningRate(l) /\ ValidNumSamples(n) /\ ValidUnrollLoop(u)
           THEN /\ kind' = "Evolutionary"
                /\ learning_rate' = l.val
                /\ num_samples' = n.val
                /\ unroll_loop' = (u.val = 1)
                /\ pc' = "constructed"
           ELSE /\ pc' = "rejected"
                /\ UNCHANGED <<kind, learning_rate, num_samples, unroll_loop>>
    /\ UNCHANGED <<num_steps, call, locals, variables, arguments, tape, trace>>

\* ------------------------------------------------- collaborators (interfaces)

\* Optimizer.apply_step(variables, deltas): adds each delta to its Variable.
ApplyStep(vs, ds) == [v \in VarIds |-> vs[v] + ds[v]]

\* fn_loss(**arguments): a scalar read off the current Variables.
FnLoss(f, vs) ==
    IF f.kind = "quadratic"
    THEN SumOver(VarIds, [v \in VarIds |-> (vs[v] - f.target) * (vs[v] - f.target)])
    ELSE IF f.kind = "linear" THEN SumOver(VarIds, vs)
    ELSE 0

\* fn_reference(**arguments): a reference value read off the current Variables.
FnReference(vs) == vs

\* tf.random_normal(shape=util.shape(variable)) * self.learning_rate, per Variable.
Perturbation(z) == [v \in VarIds |-> Real(z[v]) * learning_rate]

\* The fresh draws of one sample (fixed by `replay` in a compared second run).
Samples ==
    IF replay # <<>> THEN {replay[Len(tape) + 1]}
    ELSE {Perturbation(z) : z \in [VarIds -> Normal]}

\* ------------------------------------------------- Evolutionary.tf_step

\* Mutant: the difference taken the other way round.
DirectionReversed(unperturbed, perturbed) == Sign(perturbed - unperturbed)

\* evolutionary.py:72  direction = tf.sign(x=(unperturbed_loss - perturbed_loss))
Direction(unperturbed, perturbed) == Sign(unperturbed - perturbed)

\* evolutionary.py:73  deltas_sum = [direction * perturbation for ...]
FirstDeltasSum(direction, perts) == [v \in VarIds |-> direction * perts[v]]

\* evolutionary.py:95-98, 118-121  delta + direction * perturbation
AddDirection(sum, direction, perts) ==
    [v \in VarIds |-> sum[v] + direction * perts[v]]

\* Mutant: each new perturbation applied whole, on top of the previous ones.
PerturbationDeltasStacked(perts, prev) == perts

\* evolutionary.py:85-88, 109-112  pert - prev_pert
PerturbationDeltas(perts, prev) == [v \in VarIds |-> perts[v] - prev[v]]

\* range(self.num_samples - 1), maximum_iterations=(self.num_samples - 1);
\* range(self.num_steps - 1), maximum_iterations=(self.num_steps - 1)
MaximumIterations(n) == n - 1

\* evolutionary.py:131  deltas = [delta / self.num_samples for delta in deltas_sum]
AverageDeltas(sum) == [v \in VarIds |-> sum[v] \div num_samples]

\* Mutant: the averaged deltas applied on top of the last perturbation.
FinalPerturbationDeltasStacked(ds, perts) == ds

\* evolutionary.py:132  perturbation_deltas = [delta - pert for ...]
FinalPerturbationDeltas(ds, perts) == [v \in VarIds |-> ds[v] - perts[v]]

\* A call of Evolutionary.step(time, variables, arguments, fn_loss).
EvolutionaryStep ==
    /\ pc = "constructed"
    /\ kind = "Evolutionary"
    /\ \E f \in LossFns : fn_loss' = f
    /\ original' = variables
    /\ pc' = "first_sample"
    /\ UNCHANGED <<config, fn_reference, replay, first, locals, variables, arguments,
                   tape, trace>>

\* evolutionary.py:61  unperturbed_loss = fn_loss(**arguments).  The operation
\* has no input and is no control dependency of the first apply_step: it runs
\* at any time before line 72 consumes it.
UnperturbedLoss ==
    /\ kind = "Evolutionary"
    /\ pc \in {"first_sample", "first_loss", "first_direction"}
    /\ ~baseline_done
    /\ unperturbed_loss' = FnLoss(fn_loss, variables)
    /\ baseline_done' = TRUE
    /\ trace' = Append(trace, Event("unperturbed_loss", Zeros, arguments.reference))
    /\ UNCHANGED <<config, call, perturbed_loss, perturbations, previous_perturbations,
                   deltas_sum, deltas, iterations, pc, variables, arguments, tape>>

\* evolutionary.py:64-68  first sample and its apply_step
FirstSample ==
    /\ pc = "first_sample"
    /\ \E p \in Samples :
        /\ perturbations' = p
        /\ variables' = ApplyStep(variables, p)
        /\ tape' = Append(tape, p)
        /\ trace' = Append(trace, Event("apply_step", p, arguments.reference))
    /\ pc' = "first_loss"
    /\ UNCHANGED <<config, call, unperturbed_loss, baseline_done, perturbed_loss,
                   previous_perturbations, deltas_sum, deltas, iterations, arguments>>

\* evolutionary.py:70-71  perturbed_loss = fn_loss(**arguments), after `applied`
FirstLoss ==
    /\ pc = "first_loss"
    /\ perturbed_loss' = FnLoss(fn_loss, variables)
    /\ trace' = Append(trace, Event("perturbed_loss", Zeros, arguments.reference))
    /\ pc' = "first_direction"
    /\ UNCHANGED <<config, call, unperturbed_loss, baseline_done, perturbations,
                   previous_perturbations, deltas_sum, deltas, iterations, variables,
                   arguments, tape>>

\* evolutionary.py:72-73  direction and the first deltas_sum
FirstDirection ==
    /\ pc = "first_direction"
    /\ baseline_done
    /\ deltas_sum' = FirstDeltasSum(Direction(unperturbed_loss, perturbed_loss),
                                    perturbations)
    /\ pc' = "branch"
    /\ UNCHANGED <<config, call, unperturbed_loss, baseline_done, perturbed_loss,
                   perturbations, previous_perturbations, deltas, iterations,
                   variables, arguments, tape, trace>>

\* evolutionary.py:75-77  if self.unroll_loop: previous_perturbations = perturbations
UnrolledEnter ==
    /\ pc = "branch"
    /\ unroll_loop
    /\ previous_perturbations' = perturbations
    /\ pc' = "unrolled_for"
    /\ UNCHANGED <<config, call, unperturbed_loss, baseline_done, perturbed_loss,
                   perturbations, deltas_sum, deltas, iterations, variables, arguments,
                   tape, trace>>

\* evolutionary.py:78-90  next sample, applied as the difference to the previous one
UnrolledSample ==
    /\ pc = "unrolled_for"
    /\ iterations < MaximumIterations(num_samples)
    /\ \E p \in Samples :
        /\ perturbations' = p
        /\ variables' = ApplyStep(variables, PerturbationDeltas(p, previous_perturbations))
        /\ previous_perturbations' = p
        /\ tape' = Append(tape, p)
        /\ trace' = Append(trace, Event("apply_step",
                        PerturbationDeltas(p, previous_perturbations), arguments.reference))
    /\ pc' = "unrolled_loss"
    /\ UNCHANGED <<config, call, unperturbed_loss, baseline_done, perturbed_loss,
                   deltas_sum, deltas, iterations, arguments>>

\* evolutionary.py:92-93
UnrolledLoss ==
    /\ pc = "unrolled_loss"
    /\ perturbed_loss' = FnLoss(fn_loss, variables)
    /\ trace' = Append(trace, Event("perturbed_loss", Zeros, arguments.reference))
    /\ pc' = "unrolled_sum"
    /\ UNCHANGED <<config, call, unperturbed_loss, baseline_done, perturbations,
                   previous_perturbations, deltas_sum, deltas, iterations, variables,
                   arguments, tape>>

\* evolutionary.py:94-98
UnrolledSum ==
    /\ pc = "unrolled_sum"
    /\ deltas_sum' = AddDirection(deltas_sum, Direction(unperturbed_loss, perturbed_loss),
                                  perturbations)
    /\ iterations' = iterations + 1
    /\ pc' = "unrolled_for"
    /\ UNCHANGED <<config, call, unperturbed_loss, baseline_done, perturbed_loss,
                   perturbations, previous_perturbations, deltas, variables, arguments,
                   tape, trace>>

\* evolutionary.py:78  the for loop is exhausted
UnrolledExit ==
    /\ pc = "unrolled_for"
    /\ ~(iterations < MaximumIterations(num_samples))
    /\ pc' = "average"
    /\ UNCHANGED <<config, call, locals, variables, arguments, tape, trace>>

\* evolutionary.py:125-126  loop_vars=(deltas_sum, perturbations)
WhileEnter ==
    /\ pc = "branch"
    /\ ~unroll_loop
    /\ previous_perturbations' = perturbations
    /\ pc' = "while_loop"
    /\ UNCHANGED <<config, call, unperturbed_loss, baseline_done, perturbed_loss,
                   perturbations, deltas_sum, deltas, iterations, variables, arguments,
                   tape, trace>>

\* evolutionary.py:102-113  body: next sample (cond is util.tf_always_true)
BodySample ==
    /\ pc = "while_loop"
    /\ iterations < MaximumIterations(num_samples)
    /\ \E p \in Samples :
        /\ perturbations' = p
        /\ variables' = ApplyStep(variables, PerturbationDeltas(p, previous_perturbations))
        /\ tape' = Append(tape, p)
        /\ trace' = Append(trace, Event("apply_step",
                        PerturbationDeltas(p, previous_perturbations), arguments.reference))
    /\ pc' = "body_loss"
    /\ UNCHANGED <<config, call, unperturbed_loss, baseline_done, perturbed_loss,
                   previous_perturbations, deltas_sum, deltas, iterations, arguments>>

\* evolutionary.py:115-116
BodyLoss ==
    /\ pc = "body_loss"
    /\ perturbed_loss' = FnLoss(fn_loss, variables)
    /\ trace' = Append(trace, Event("perturbed_loss", Zeros, arguments.reference))
    /\ pc' = "body_sum"
    /\ UNCHANGED <<config, call, unperturbed_loss, baseline_done, perturbations,
                   previous_perturbations, deltas_sum, deltas, iterations, variables,
                   arguments, tape>>

\* evolutionary.py:117-123  return deltas_sum, perturbations
BodySum ==
    /\ pc = "body_sum"
    /\ deltas_sum' = AddDirection(deltas_sum, Direction(unperturbed_loss, perturbed_loss),
                                  perturbations)
    /\ previous_perturbations' = perturbations
    /\ iterations' = iterations + 1
    /\ pc' = "while_loop"
    /\ UNCHANGED <<config, call, unperturbed_loss, baseline_done, perturbed_loss,
                   perturbations, deltas, variables, arguments, tape, trace>>

\* evolutionary.py:125-128  deltas_sum, perturbations = tf.while_loop(...)
WhileExit ==
    /\ pc = "while_loop"
    /\ ~(iterations < MaximumIterations(num_samples))
    /\ perturbations' = previous_perturbations
    /\ pc' = "average"
    /\ UNCHANGED <<config, call, unperturbed_loss, baseline_done, perturbed_loss,
                   previous_perturbations, deltas_sum, deltas, iterations, variables,
                   arguments, tape, trace>>

\* evolutionary.py:130-133  average, and the final apply_step
Average ==
    /\ pc = "average"
    /\ deltas' = AverageDeltas(deltas_sum)
    /\ variables' = ApplyStep(variables, FinalPerturbationDeltas(deltas', perturbations))
    /\ trace' = Append(trace, Event("apply_step",
                    FinalPerturbationDeltas(deltas', perturbations), arguments.reference))
    /\ pc' = "identity"
    /\ UNCHANGED <<config, call, unperturbed_loss, baseline_done, perturbed_loss,
                   perturbations, previous_perturbations, deltas_sum, iterations,
                   arguments, tape>>

\* evolutionary.py:135-137  return the deltas, after `applied`
ReturnDeltas ==
    /\ pc = "identity"
    /\ pc' = "returned"
    /\ UNCHANGED <<config, call, locals, variables, arguments, tape, trace>>

\* ---------------------------------------------------- MultiStep.tf_step

\* Mutant: the accumulated deltas overwritten by the latest step's.
AddDeltasOverwrite(ds, step_deltas) == step_deltas

\* multi_step.py:72, 83  deltas = [delta1 + delta2 for ... in zip(deltas, step_deltas)]
AddDeltas(ds, step_deltas) == [v \in VarIds |-> ds[v] + step_deltas[v]]

\* Mutant: the reference computed anew for every inner step.
InnerArgumentsResampled == [arguments EXCEPT !.reference = FnReference(variables)]

\* multi_step.py:63, 69-71, 80-82  arguments=arguments: the mapping every inner step gets
InnerArguments == arguments

\* The deltas one inner step returns (fixed by `replay` in a compared second run).
InnerSamples ==
    IF replay # <<>> THEN {replay[Len(tape) + 1]} ELSE [VarIds -> InnerDeltas]

\* self.optimizer.step(time, variables, arguments): the inner optimizer reads
\* the Variables, applies its deltas to them and returns the deltas.
InnerStep(d) ==
    /\ variables' = ApplyStep(variables, d)
    /\ tape' = Append(tape, d)
    /\ trace' = Append(trace, Event("step", d, InnerArguments.reference))

\* A call of MultiStep.step(time, variables, arguments, fn_reference=None).
MultiStepStep ==
    /\ pc = "constructed"
    /\ kind = "MultiStep"
    /\ \E r \in FnReferences : fn_reference' = r
    /\ original' = variables
    /\ pc' = "reference"
    /\ UNCHANGED <<config, fn_loss, replay, first, locals, variables, arguments,
                   tape, trace>>

\* multi_step.py:60  arguments['reference'] = fn_reference(**arguments)
\* Calling None raises TypeError.
SetReference ==
    /\ pc = "reference"
    /\ IF fn_reference = "None"
       THEN /\ pc' = "raised"
            /\ UNCHANGED <<arguments, trace>>
       ELSE /\ arguments' = [has_reference |-> TRUE, reference |-> FnReference(variables)]
            /\ trace' = Append(trace, Event("fn_reference", Zeros, arguments.reference))
            /\ pc' = "first_step"
    /\ UNCHANGED <<config, call, locals, variables, tape>>

\* multi_step.py:63-65  first step
FirstStep ==
    /\ pc = "first_step"
    /\ \E d \in InnerSamples :
        /\ InnerStep(d)
        /\ deltas' = d
    /\ pc' = IF unroll_loop THEN "ms_unrolled_for" ELSE "ms_while_loop"
    /\ UNCHANGED <<config, call, unperturbed_loss, baseline_done, perturbed_loss,
                   perturbations, previous_perturbations, deltas_sum, iterations,
                   arguments>>

\* multi_step.py:67-72  one pass of the unrolled for loop
UnrolledStep ==
    /\ pc = "ms_unrolled_for"
    /\ iterations < MaximumIterations(num_steps)
    /\ \E d \in InnerSamples :
        /\ InnerStep(d)
        /\ deltas' = AddDeltas(deltas, d)
    /\ iterations' = iterations + 1
    /\ UNCHANGED <<config, call, unperturbed_loss, baseline_done, perturbed_loss,
                   perturbations, previous_perturbations, deltas_sum, pc, arguments>>

\* multi_step.py:74  return deltas
UnrolledReturn ==
    /\ pc = "ms_unrolled_for"
    /\ ~(iterations < MaximumIterations(num_steps))
    /\ pc' = "returned"
    /\ UNCHANGED <<config, call, locals, variables, arguments, tape, trace>>

\* multi_step.py:78-84  body of the while loop (cond is util.tf_always_true)
BodyStep ==
    /\ pc = "ms_while_loop"
    /\ iterations < MaximumIterations(num_steps)
    /\ \E d \in InnerSamples :
        /\ InnerStep(d)
        /\ deltas' = AddDeltas(deltas, d)
    /\ iterations' = iterations + 1
    /\ UNCHANGED <<config, call, unperturbed_loss, baseline_done, perturbed_loss,
                   perturbations, previous_perturbations, deltas_sum, pc, arguments>>

\* multi_step.py:86-91  deltas = tf.while_loop(...); return deltas
WhileReturn ==
    /\ pc = "ms_while_loop"
    /\ ~(iterations < MaximumIterations(num_steps))
    /\ pc' = "returned"
    /\ UNCHANGED <<config, call, locals, variables, arguments, tape, trace>>

\* ------------------------------------------------------------ specification

Next ==
    \/ MultiStepInit
    \/ EvolutionaryInit
    \/ EvolutionaryStep
    \/ UnperturbedLoss
    \/ FirstSample
    \/ FirstLoss
    \/ FirstDirection
    \/ UnrolledEnter
    \/ UnrolledSample
    \/ UnrolledLoss
    \/ UnrolledSum
    \/ UnrolledExit
    \/ WhileEnter
    \/ BodySample
    \/ BodyLoss
    \/ BodySum
    \/ WhileExit
    \/ Average
    \/ ReturnDeltas
    \/ MultiStepStep
    \/ SetReference
    \/ FirstStep
    \/ UnrolledStep
    \/ UnrolledReturn
    \/ BodyStep
    \/ WhileReturn

Spec == Init /\ [][Next]_vars

\* The same step call made again on an optimizer that differs only in
\* unroll_loop: same Variables, same arguments and callables, same samples.
OtherStrategy ==
    /\ pc = "returned"
    /\ ~first.done
    /\ first' = [done |-> TRUE, deltas |-> deltas, variables |-> variables,
                 trace |-> trace]
    /\ unroll_loop' = ~unroll_loop
    /\ variables' = original
    /\ replay' = tape
    /\ tape' = <<>>
    /\ trace' = <<>>
    /\ arguments' = NoArguments
    /\ unperturbed_loss' = 0
    /\ baseline_done' = FALSE
    /\ perturbed_loss' = 0
    /\ perturbations' = Zeros
    /\ previous_perturbations' = Zeros
    /\ deltas_sum' = Zeros
    /\ deltas' = Zeros
    /\ iterations' = 0
    /\ pc' = IF kind = "Evolutionary" THEN "first_sample" ELSE "reference"
    /\ UNCHANGED <<kind, ctor_args, num_steps, num_samples, learning_rate, fn_loss,
                   fn_reference, original>>

NextBoth == Next \/ OtherStrategy

SpecBoth == Init /\ [][NextBoth]_vars

\* ----------------------------------------------------------------- claims

Plus(a, b) == [v \in VarIds |-> a[v] + b[v]]

\* Sum of the first k entries of the tape.
RECURSIVE TapeSum(_)
TapeSum(k) == IF k = 0 THEN Zeros ELSE Plus(TapeSum(k - 1), tape[k])

\* Sign of (baseline loss - loss with the k-th sampled perturbation alone applied
\* to the pre-step Variables).
DirectionOf(k) == Sign(unperturbed_loss - FnLoss(fn_loss, Plus(original, tape[k])))

\* Sum over the first k samples of direction * perturbation.
RECURSIVE SignedSum(_)
SignedSum(k) ==
    IF k = 0 THEN Zeros
    ELSE [v \in VarIds |-> SignedSum(k - 1)[v] + DirectionOf(k) * tape[k][v]]

Count(op) == Cardinality({i \in 1 .. Len(trace) : trace[i].op = op})

EvoReturned == kind = "Evolutionary" /\ pc = "returned"
MultiReturned == kind = "MultiStep" /\ pc = "returned"

\* C1: when Evolutionary.step returns, under either strategy, every Variable
\* equals its pre-step value plus the returned delta.
C1_FinalState ==
    EvoReturned => \A v \in VarIds : variables[v] = original[v] + deltas[v]

\* A returned step of several samples whose returned deltas differ from the last
\* perturbation and from the sum of all perturbations.
C1_Witness ==
    /\ EvoReturned
    /\ num_samples >= 2
    /\ deltas # Zeros
    /\ deltas # tape[Len(tape)]
    /\ deltas # TapeSum(Len(tape))

\* C2: when MultiStep.step returns, num_steps inner steps have run, inner step
\* j + 1 found the Variables as inner step j left them, the returned deltas are
\* the elementwise sum of the inner steps' deltas and the Variables are the
\* pre-step values plus the returned deltas.
C2_SumProperty ==
    MultiReturned =>
        /\ Len(tape) = num_steps
        /\ deltas = TapeSum(num_steps)
        /\ variables = Plus(original, deltas)
        /\ \A j \in 1 .. num_steps :
            /\ trace[j + 1].op = "step"
            /\ trace[j + 1].arg = tape[j]
            /\ trace[j + 1].vars = Plus(original, TapeSum(j - 1))

\* Three inner steps of constant delta 1: returned delta 3, Variables initial + 3.
C2_Witness ==
    /\ MultiReturned
    /\ num_steps = 3
    /\ \A j \in 1 .. 3 : tape[j] = [v \in VarIds |-> Real(1)]
    /\ deltas = [v \in VarIds |-> Real(3)]
    /\ variables = [v \in VarIds |-> original[v] + Real(3)]

\* C4: the delta Evolutionary.step returns for each Variable, times num_samples,
\* is the sum over the num_samples samples of direction_k * perturbation_k, where
\* direction_k is the sign of (unperturbed_loss - loss with perturbation k
\* applied): 1 for a strictly smaller loss, -1 for a strictly larger one, 0 for
\* an equal one.  With every direction 1 and one perturbation p throughout, the
\* returned delta is p.
C4_ResultFormula ==
    EvoReturned =>
        /\ Len(tape) = num_samples
        /\ \A v \in VarIds : deltas[v] * num_samples = SignedSum(num_samples)[v]
        /\ (\A k \in 1 .. num_samples : DirectionOf(k) = 1 /\ tape[k] = tape[1])
            => deltas = tape[1]

\* A returned step whose samples had all three directions.
C4_Witness ==
    /\ EvoReturned
    /\ num_samples >= 3
    /\ {DirectionOf(k) : k \in 1 .. num_samples} = {-1, 0, 1}
    /\ deltas # Zeros

\* The steps of MultiStep.tf_step after line 60 has run.
AfterReference ==
    /\ kind = "MultiStep"
    /\ pc \in {"first_step", "ms_unrolled_for", "ms_while_loop", "returned"}

\* C5: once MultiStep.step has passed line 60 with a callable fn_reference,
\* fn_reference has run exactly once, before every inner step and on the
\* pre-step Variables; its result is arguments['reference'], and every inner
\* step was handed that same value, whatever the Variables had become.
C5_ReferenceOnce ==
    AfterReference =>
        /\ fn_reference = "callable"
        /\ Count("fn_reference") = 1
        /\ trace[1].op = "fn_reference"
        /\ trace[1].vars = original
        /\ arguments.has_reference
        /\ arguments.reference = FnReference(original)
        /\ \A i \in 2 .. Len(trace) :
            /\ trace[i].op = "step"
            /\ trace[i].reference = FnReference(original)
        /\ pc = "returned" => Count("step") = num_steps

\* A returned step whose last inner step found Variables that differ from the
\* ones the reference was computed on.
C5_Witness ==
    /\ MultiReturned
    /\ num_steps >= 2
    /\ ~unroll_loop
    /\ trace[Len(trace)].vars # original
    /\ FnReference(trace[Len(trace)].vars) # arguments.reference

\* What the claim calls a valid configuration (an integer as Python's
\* isinstance has it: an int or a bool).
ConfigurationValid(a) ==
    /\ a.num.type \in {"int", "bool"}
    /\ a.num.val >= 1
    /\ a.unroll_loop.type = "bool"
    /\ a.class = "Evolutionary" =>
        (a.learning_rate.type = "float" /\ a.learning_rate.val > 0)

Settings == <<kind, num_steps, num_samples, learning_rate, unroll_loop>>

\* C7: a constructor call ends rejected exactly when its configuration is
\* invalid; every optimizer that exists (and so every step) has num_steps >= 1 or
\* num_samples >= 1 and learning_rate > 0, as passed; and no step of tf_step
\* changes the settings once constructed.
C7_ConfigurationChecked ==
    /\ [](pc # "new" =>
            /\ (pc = "rejected") <=> ~ConfigurationValid(ctor_args)
            /\ pc # "rejected" =>
                /\ kind = ctor_args.class
                /\ unroll_loop = (ctor_args.unroll_loop.val = 1)
                /\ kind = "MultiStep" => num_steps = ctor_args.num.val /\ num_steps >= 1
                /\ kind = "Evolutionary" =>
                    /\ num_samples = ctor_args.num.val /\ num_samples >= 1
                    /\ learning_rate = ctor_args.learning_rate.val /\ learning_rate > 0)
    /\ [][pc # "new" => Settings' = Settings]_vars

\* A construction rejected for its learning_rate of 0.0 alone.
C7_Witness ==
    /\ pc = "rejected"
    /\ ctor_args.class = "Evolutionary"
    /\ ctor_args.learning_rate = PyFloat(0)
    /\ ctor_args.num = PyInt(1)
    /\ ctor_args.unroll_loop = PyBool(FALSE)

\* The positions right after a perturbed loss evaluation.
LossEvaluated == pc \in {"first_direction", "unrolled_sum", "body_sum"}

\* C9: right after the k-th perturbed loss evaluation, under either strategy,
\* every Variable is its pre-step value plus the k-th sampled perturbation
\* alone, the loss evaluated is the loss there, and the perturbation about to be
\* accumulated into deltas_sum is that k-th one.
C9_LatestPerturbation ==
    LossEvaluated =>
        /\ Len(tape) = Count("perturbed_loss")
        /\ Len(tape) \in 1 .. num_samples
        /\ variables = Plus(original, tape[Len(tape)])
        /\ perturbed_loss = FnLoss(fn_loss, Plus(original, tape[Len(tape)]))
        /\ perturbations = tape[Len(tape)]
        /\ variables = Plus(original, perturbations)

\* A later evaluation in the while loop, where the sum of the perturbations
\* sampled so far differs from the latest one.
C9_Witness ==
    /\ pc = "body_sum"
    /\ Len(tape) >= 2
    /\ tape[Len(tape)] # tape[1]
    /\ TapeSum(Len(tape)) # tape[Len(tape)]

\* C3: a step call and the same call made with the other strategy (same
\* initial Variables, count, callables and samples) return the same deltas, leave
\* the same Variables and run the same sequence of fn_loss, apply_step,
\* fn_reference and inner step operations.
C3_StrategiesAgree ==
    (first.done /\ pc = "returned") =>
        /\ deltas = first.deltas
        /\ variables = first.variables
        /\ trace = first.trace

\* C6: a MultiStep.step call that omits fn_reference does not fail; it runs its
\* num_steps inner steps and returns their summed deltas.
C6_ReferenceOptional ==
    (kind = "MultiStep" /\ fn_reference = "None") =>
        /\ pc # "raised"
        /\ pc = "returned" => (Count("step") = num_steps /\ deltas = TapeSum(num_steps))

\* C8: the unperturbed_loss evaluation is the first operation of the step to
\* touch the Variables, so it is the loss at their pre-step values, and every
\* perturbed loss evaluation finds the Variables as the apply_step before it
\* left them.
C8_BaselineFirst ==
    kind = "Evolutionary" =>
        /\ baseline_done =>
            /\ trace[1].op = "unperturbed_loss"
            /\ unperturbed_loss = FnLoss(fn_loss, original)
        /\ \A i \in 1 .. Len(trace) :
            trace[i].op = "perturbed_loss" =>
                \E j \in 1 .. i - 1 :
                    /\ trace[j].op = "apply_step"
                    /\ \A m \in j + 1 .. i - 1 : trace[m].op = "unperturbed_loss"
                    /\ trace[i].vars = Plus(trace[j].vars, trace[j].arg)

\* C10: every step call that has ended ran its loop body num_steps - 1 or
\* num_samples - 1 times: num_steps inner steps for MultiStep, num_samples + 1
\* fn_loss evaluations and num_samples + 1 apply_step calls for Evolutionary.
C10_IterationCounts ==
    pc \in {"returned", "raised"} =>
        /\ kind = "MultiStep" =>
            /\ iterations = num_steps - 1
            /\ Count("step") = num_steps
        /\ kind = "Evolutionary" =>
            /\ iterations = num_samples - 1
            /\ Count("unperturbed_loss") + Count("perturbed_loss") = num_samples + 1
            /\ Count("apply_step") = num_samples + 1

====
